---- MODULE Spec2Model ----
(***************************************************************************)
(* Model of minio/resource_minio_ilm_policy.go: the minio_ilm_policy       *)
(* resource.  Strings that the code parses or formats (the expiration and  *)
(* the transition days/date) are sequences of one-character strings, so    *)
(* that fmt.Sscanf, time.Parse, fmt.Sprintf and Time.Format are modelled   *)
(* by what they do to the characters.  Bucket names, rule ids, prefixes,   *)
(* storage classes and tag keys/values are only copied by the code and are *)
(* plain strings.                                                          *)
(***************************************************************************)
EXTENDS Integers, Sequences, FiniteSets, TLC

VARIABLES
    d,       \* the schema.ResourceData of the resource: id, bucket, rule
    store,   \* the object store: bucket name -> lifecycle configuration rules
    last,    \* the last handler run: its inputs, store calls and return value
    cin,     \* codec check: the expiration string under test
    cexp,    \* codec check: parseILMExpiration(cin), once computed
    cout,    \* codec check: the Read path's decoding of cexp, once computed
    cval,    \* codec check: validateILMExpiration(cin), once computed
    cpc,     \* codec check: position ("input", "parsed", "decoded", "validated")
    rc,      \* rule check: one "rule" entry, the lifecycle.Rule built from it (or
             \* returned by the store), its decoding and the rule built from that
    race     \* two callers writing the same bucket: each one's position,
             \* resource data, rule list and return value, and the writes in order

vars == <<d, store, last, cin, cexp, cout, cval, cpc, rc, race>>

(***************************************************************************)
(* Bounds of the model.                                                    *)
(***************************************************************************)
\* longest rule list given to Create/Update
MaxRules == 2
\* longest expiration string enumerated character by character
MaxLen == 3
\* largest day count n for which the canonical token "<n>d" is enumerated
MaxDays == 12

(***************************************************************************)
(* Characters and strings.                                                 *)
(***************************************************************************)
Digits == {"0", "1", "2", "3", "4", "5", "6", "7", "8", "9"}

DigitVal(c) ==
    CASE c = "0" -> 0 [] c = "1" -> 1 [] c = "2" -> 2 [] c = "3" -> 3
      [] c = "4" -> 4 [] c = "5" -> 5 [] c = "6" -> 6 [] c = "7" -> 7
      [] c = "8" -> 8 [] c = "9" -> 9

DigitChar(n) ==
    CASE n = 0 -> "0" [] n = 1 -> "1" [] n = 2 -> "2" [] n = 3 -> "3"
      [] n = 4 -> "4" [] n = 5 -> "5" [] n = 6 -> "6" [] n = 7 -> "7"
      [] n = 8 -> "8" [] n = 9 -> "9"

\* strconv's decimal value of a non-empty sequence of digits
RECURSIVE DecimalValue(_)
DecimalValue(s) ==
    IF s = <<>> THEN 0
    ELSE 10 * DecimalValue(SubSeq(s, 1, Len(s) - 1)) + DigitVal(s[Len(s)])

\* the decimal digits of n >= 0, as %d prints them
RECURSIVE NatToStr(_)
NatToStr(n) ==
    IF n < 10 THEN <<DigitChar(n)>>
    ELSE Append(NatToStr(n \div 10), DigitChar(n % 10))

\* fmt's %d of an int
IntToStr(n) == IF n < 0 THEN <<"-">> \o NatToStr(-n) ELSE NatToStr(n)

\* n printed in at least w digits, zero padded (Time.Format's 2006, 01, 02)
RECURSIVE PadNat(_, _)
PadNat(n, w) ==
    LET s == NatToStr(n) IN
    IF Len(s) >= w THEN s ELSE <<"0">> \o PadNat(n, w - 1)

DeleteMarkerStr == <<"D", "e", "l", "e", "t", "e", "M", "a", "r", "k", "e", "r">>

(***************************************************************************)
(* time.Time values of whole days, and the layout "2006-01-02".            *)
(***************************************************************************)
\* the zero time.Time, January 1, year 1 (Time.IsZero)
ZeroTime == [year |-> 1, month |-> 1, day |-> 1]

IsLeap(y) == (y % 4 = 0) /\ ((y % 100 # 0) \/ (y % 400 = 0))

DaysIn(m, y) ==
    IF m = 2 THEN (IF IsLeap(y) THEN 29 ELSE 28)
    ELSE IF m \in {4, 6, 9, 11} THEN 30 ELSE 31

AllDigits(s) == \A i \in 1..Len(s) : s[i] \in Digits

\* time.Parse("2006-01-02", s): four digits, '-', two digits, '-', two
\* digits, nothing after them; the month in 1..12 and the day in the month.
TimeParse(s) ==
    LET shaped == /\ Len(s) = 10
                  /\ AllDigits(SubSeq(s, 1, 4))
                  /\ s[5] = "-"
                  /\ AllDigits(SubSeq(s, 6, 7))
                  /\ s[8] = "-"
                  /\ AllDigits(SubSeq(s, 9, 10))
        y == DecimalValue(SubSeq(s, 1, 4))
        m == DecimalValue(SubSeq(s, 6, 7))
        dd == DecimalValue(SubSeq(s, 9, 10))
    IN  IF shaped /\ m \in 1..12 /\ dd >= 1 /\ dd <= DaysIn(m, y)
        THEN [ok |-> TRUE, time |-> [year |-> y, month |-> m, day |-> dd]]
        ELSE [ok |-> FALSE, time |-> ZeroTime]

\* Time.Format("2006-01-02")
TimeFormat(t) ==
    PadNat(t.year, 4) \o <<"-">> \o PadNat(t.month, 2) \o <<"-">> \o PadNat(t.day, 2)

(***************************************************************************)
(* fmt.Sscanf(s, "%dd", &days).                                            *)
(***************************************************************************)
\* index of the first character of s at or after i that is not a space
RECURSIVE SkipSpace(_, _)
SkipSpace(s, i) ==
    IF i <= Len(s) /\ s[i] = " " THEN SkipSpace(s, i + 1) ELSE i

\* index after the longest run of characters of set cs starting at i
RECURSIVE AcceptRun(_, _, _)
AcceptRun(s, i, cs) ==
    IF i <= Len(s) /\ s[i] \in cs THEN AcceptRun(s, i + 1, cs) ELSE i

\* the scan reading one digit only, as a width of 1 (%1dd) does
SscanfDays_OneDigit(s) ==
    LET i0 == SkipSpace(s, 1)
        i1 == IF i0 <= Len(s) /\ s[i0] \in {"+", "-"} THEN i0 + 1 ELSE i0
        i2 == IF i1 <= Len(s) /\ s[i1] \in Digits THEN i1 + 1 ELSE i1
        tok == SubSeq(s, i1, i2 - 1)
        neg == i1 > i0 /\ s[i0] = "-"
        ok == /\ i2 > i1
              /\ i2 <= Len(s)
              /\ s[i2] = "d"
    IN  IF ok
        THEN [ok |-> TRUE, days |-> IF neg THEN -DecimalValue(tok) ELSE DecimalValue(tok)]
        ELSE [ok |-> FALSE, days |-> 0]

\* %d skips leading spaces, accepts one sign, then a run of "0123456789_"
\* which strconv.ParseInt(tok, 10, 64) must accept (no '_' in base 10); the
\* literal 'd' of the format must follow.  Input left after it is not read.
SscanfDays(s) ==
    LET i0 == SkipSpace(s, 1)
        i1 == IF i0 <= Len(s) /\ s[i0] \in {"+", "-"} THEN i0 + 1 ELSE i0
        i2 == AcceptRun(s, i1, Digits \cup {"_"})
        tok == SubSeq(s, i1, i2 - 1)
        neg == i1 > i0 /\ s[i0] = "-"
        ok == /\ i2 > i1
              /\ AllDigits(tok)
              /\ i2 <= Len(s)
              /\ s[i2] = "d"
    IN  IF ok
        THEN [ok |-> TRUE, days |-> IF neg THEN -DecimalValue(tok) ELSE DecimalValue(tok)]
        ELSE [ok |-> FALSE, days |-> 0]

(***************************************************************************)
(* lifecycle.Expiration and its codec.                                     *)
(***************************************************************************)
\* lifecycle.Expiration{}
EmptyExpiration == [Days |-> 0, Date |-> ZeroTime, DeleteMarker |-> FALSE]

parseILMExpiration(s) ==
    IF s = DeleteMarkerStr
    THEN [EmptyExpiration EXCEPT !.DeleteMarker = TRUE]
    ELSE LET sc == SscanfDays(s) IN
         IF sc.ok
         THEN [EmptyExpiration EXCEPT !.Days = sc.days]
         ELSE LET tp == TimeParse(s) IN
              IF tp.ok
              THEN [EmptyExpiration EXCEPT !.Date = tp.time]
              ELSE EmptyExpiration

\* the diagnostics of validateILMExpiration: "" for none
FormatErrorMsg == "expiration must be a duration (5d), date (1970-01-01), or DeleteMarker"

validateILMExpiration(s) ==
    IF parseILMExpiration(s) = EmptyExpiration THEN FormatErrorMsg ELSE ""

\* the expiration string minioReadILMPolicy builds for a store rule
DecodeExpiration(e) ==
    IF e.DeleteMarker THEN DeleteMarkerStr
    ELSE IF e.Days # 0 THEN IntToStr(e.Days) \o <<"d">>
    ELSE IF e.Date # ZeroTime THEN TimeFormat(e.Date)
    ELSE <<>>

(***************************************************************************)
(* lifecycle.Transition and its codec.                                     *)
(***************************************************************************)
\* lifecycle.Transition{}
EmptyTransition == [Days |-> 0, Date |-> ZeroTime, StorageClass |-> ""]

\* parseILMTransition keeping the date next to the days it has read
parseILMTransition_FillsBoth(transitions) ==
    IF Len(transitions) = 0 THEN EmptyTransition
    ELSE LET t == transitions[1]
             sc == SscanfDays(t.days)
             tp == TimeParse(t.date)
         IN  IF sc.ok
             THEN [Days |-> sc.days, Date |-> IF tp.ok THEN tp.time ELSE ZeroTime,
                   StorageClass |-> t.storage_class]
             ELSE IF tp.ok
                  THEN [Days |-> 0, Date |-> tp.time, StorageClass |-> t.storage_class]
                  ELSE EmptyTransition

\* transitions: the "transition" list of a rule, of at most one element
\* [days, date, storage_class]
parseILMTransition(transitions) ==
    IF Len(transitions) = 0 THEN EmptyTransition
    ELSE LET t == transitions[1]
             sc == SscanfDays(t.days)
         IN  IF sc.ok
             THEN [Days |-> sc.days, Date |-> ZeroTime, StorageClass |-> t.storage_class]
             ELSE LET tp == TimeParse(t.date) IN
                  IF tp.ok
                  THEN [Days |-> 0, Date |-> tp.time, StorageClass |-> t.storage_class]
                  ELSE EmptyTransition

\* the "transition" list minioReadILMPolicy builds for a store rule; the map
\* keys it leaves unset read back as empty strings.  Transition.IsNull is
\* "no storage class", IsDaysNull "Days == 0", IsDateNull "Date.IsZero()".
DecodeTransition(t) ==
    IF t.StorageClass = "" THEN <<>>
    ELSE << [days |-> IF t.Days # 0 THEN IntToStr(t.Days) \o <<"d">> ELSE <<>>,
             date |-> IF t.Days = 0 /\ t.Date # ZeroTime THEN TimeFormat(t.Date) ELSE <<>>,
             storage_class |-> t.StorageClass] >>

(***************************************************************************)
(* lifecycle.Filter and its codec.  Tags of a rule are a function from tag *)
(* keys to tag values; Filter.And.Tags is a list of [Key, Value].          *)
(***************************************************************************)
NoTags == [k \in {} |-> ""]

\* the orders in which a Go range over the map may visit its keys
KeyOrders(tags) ==
    LET n == Cardinality(DOMAIN tags) IN
    {o \in [1..n -> DOMAIN tags] : \A i, j \in 1..n : i # j => o[i] # o[j]}

\* EncodeFilter writing the prefix of a tagged rule to Filter.Prefix
EncodeFilter_PrefixOutsideAnd(prefix, tags) ==
    IF Cardinality(DOMAIN tags) > 0
    THEN {[Prefix |-> prefix,
           And |-> [Prefix |-> "",
                    Tags |-> [i \in 1..Cardinality(DOMAIN tags) |->
                                 [Key |-> o[i], Value |-> tags[o[i]]]]]] :
          o \in KeyOrders(tags)}
    ELSE {[Prefix |-> prefix, And |-> [Prefix |-> "", Tags |-> <<>>]]}

\* the filters minioCreateILMPolicy may build for (prefix, tags): one for
\* each order in which the range over tags appends them
EncodeFilter(prefix, tags) ==
    IF Cardinality(DOMAIN tags) > 0
    THEN {[Prefix |-> "",
           And |-> [Prefix |-> prefix,
                    Tags |-> [i \in 1..Cardinality(DOMAIN tags) |->
                                 [Key |-> o[i], Value |-> tags[o[i]]]]]] :
          o \in KeyOrders(tags)}
    ELSE {[Prefix |-> prefix, And |-> [Prefix |-> "", Tags |-> <<>>]]}

\* the prefix minioReadILMPolicy reads from a store filter
DecodePrefix(f) == IF Len(f.And.Tags) > 0 THEN f.And.Prefix ELSE f.Prefix

\* the tags map minioReadILMPolicy reads from a store filter: a later pair
\* of the list overwrites an earlier one of the same key
DecodeTags(f) ==
    LET ts == f.And.Tags
        last_of(k) == CHOOSE i \in 1..Len(ts) :
                         /\ ts[i].Key = k
                         /\ \A j \in 1..Len(ts) : ts[j].Key = k => j <= i
    IN  [k \in {ts[i].Key : i \in 1..Len(ts)} |-> ts[last_of(k)].Value]

(***************************************************************************)
(* Rules: the "rule" list entries of the resource and lifecycle.Rule.      *)
(***************************************************************************)
\* BuildRule giving the rule the status its entry has
BuildRule_KeepsStatus(rule) ==
    {[ID |-> rule.id,
      Expiration |-> parseILMExpiration(rule.expiration),
      Transition |-> parseILMTransition(rule.transition),
      NoncurrentVersionExpiration |-> [NoncurrentDays |-> rule.noncurrent_version_expiration_days],
      NoncurrentVersionTransition |-> [NoncurrentDays |-> rule.noncurrent_version_transition_days],
      Status |-> rule.status,
      RuleFilter |-> f] : f \in EncodeFilter(rule.filter, rule.tags)}

\* lifecycle.Rule built by minioCreateILMPolicy from one "rule" entry: one
\* for each filter the range over the tags may build
BuildRule(rule) ==
    {[ID |-> rule.id,
      Expiration |-> parseILMExpiration(rule.expiration),
      Transition |-> parseILMTransition(rule.transition),
      NoncurrentVersionExpiration |-> [NoncurrentDays |-> rule.noncurrent_version_expiration_days],
      NoncurrentVersionTransition |-> [NoncurrentDays |-> rule.noncurrent_version_transition_days],
      Status |-> "Enabled",
      RuleFilter |-> f] : f \in EncodeFilter(rule.filter, rule.tags)}

\* config.Rules after the loop of minioCreateILMPolicy over the "rule" list
RECURSIVE BuildRules(_)
BuildRules(rules) ==
    IF rules = <<>> THEN {<<>>}
    ELSE {Append(front, r) :
            front \in BuildRules(SubSeq(rules, 1, Len(rules) - 1)),
            r \in BuildRule(rules[Len(rules)])}

\* the "rule" entry minioReadILMPolicy builds from one lifecycle.Rule
DecodeRule(r) ==
    [id |-> r.ID,
     expiration |-> DecodeExpiration(r.Expiration),
     transition |-> DecodeTransition(r.Transition),
     noncurrent_version_expiration_days |-> r.NoncurrentVersionExpiration.NoncurrentDays,
     noncurrent_version_transition_days |-> r.NoncurrentVersionTransition.NoncurrentDays,
     status |-> r.Status,
     filter |-> DecodePrefix(r.RuleFilter),
     tags |-> DecodeTags(r.RuleFilter)]

\* the "rule" list without its computed attribute
StripStatus(rules) == [i \in 1..Len(rules) |-> [rules[i] EXCEPT !.status = ""]]

\* the "rule" list minioReadILMPolicy sets from config.Rules
DecodeRules(config) == [i \in 1..Len(config) |-> DecodeRule(config[i])]

(***************************************************************************)
(* Inputs of the handlers.                                                 *)
(***************************************************************************)
\* the buckets the store has
Buckets == {"b1"}

RuleEntry(id, exp, tr, nve, nvt, prefix, tags) ==
    [id |-> id, expiration |-> exp, transition |-> tr,
     noncurrent_version_expiration_days |-> nve,
     noncurrent_version_transition_days |-> nvt,
     status |-> "", filter |-> prefix, tags |-> tags]

\* "rule" entries as the configuration may give them (status is computed
\* and not yet known)
CandidateRules ==
    { RuleEntry("r1", <<"5", "d">>, <<>>, 0, 0, "tmp/", NoTags),
      RuleEntry("r2", DeleteMarkerStr, <<>>, 30, 0, "", [k \in {"k"} |-> "v"]),
      RuleEntry("r1", <<"5", "d", "x">>,
                << [days |-> <<"3", "d">>, date |-> <<>>, storage_class |-> "GLACIER"] >>,
                0, 7, "logs/", NoTags),
      RuleEntry("r2", <<"0", "d">>, <<>>, 0, 0, "tmp/", NoTags),
      RuleEntry("r2", <<"5", "d">>, <<>>, -1, 0, "tmp/", NoTags) }

validateILMNoncurrentVersionExpiration(value) ==
    IF value < 1 THEN "noncurrent_version_expiration_days must be strictly positive" ELSE ""

validateILMNoncurrentVersionTransition(value) ==
    IF value < 1 THEN "noncurrent_version_transition_days must be strictly positive" ELSE ""

\* the schema's ValidateDiagFuncs run on the attributes the configuration
\* sets (an unset optional attribute is its zero value and is not validated)
SchemaAccepts(rule) ==
    /\ rule.expiration # <<>> => validateILMExpiration(rule.expiration) = ""
    /\ rule.noncurrent_version_expiration_days # 0 =>
         validateILMNoncurrentVersionExpiration(rule.noncurrent_version_expiration_days) = ""
    /\ rule.noncurrent_version_transition_days # 0 =>
         validateILMNoncurrentVersionTransition(rule.noncurrent_version_transition_days) = ""

\* the rules that reach the handlers
RuleInputs == {r \in CandidateRules : SchemaAccepts(r)}

\* the "rule" lists that reach the handlers ("rule" is Required: at least
\* one block)
RuleLists ==
    UNION {[1..n -> RuleInputs] : n \in 1..MaxRules}

(***************************************************************************)
(* The store client and the diagnostics.                                   *)
(***************************************************************************)
\* diag.Diagnostics: nil, or NewResourceError(msg, resource, err)
NilDiag == [error |-> FALSE, msg |-> "", resource |-> ""]

NewResourceError(msg, resource) == [error |-> TRUE, msg |-> msg, resource |-> resource]

\* whether the store answers a call on bucket b without error: up is the
\* store's (or the network's) choice; the store has the buckets Buckets only
StoreAnswers(b, up) == up /\ b \in Buckets

\* a set that adds the rules to those the bucket has
SetBucketLifecycle_Merges(st, b, config) == [st EXCEPT ![b] = st[b] \o config]

\* c.SetBucketLifecycle(ctx, b, config) when the store accepts it: the
\* bucket's configuration is config
SetBucketLifecycle(st, b, config) == [st EXCEPT ![b] = config]

\* c.GetBucketLifecycle(ctx, b) when the store answers
GetBucketLifecycle(st, b) == st[b]

\* the record of one store call in last.calls
SetCall(b, config, ok) == [op |-> "set", bucket |-> b, config |-> config, ok |-> ok]
GetCall(b, ok) == [op |-> "get", bucket |-> b, config |-> <<>>, ok |-> ok]

(***************************************************************************)
(* The handlers.  A handler maps w = [d, store, calls, result], the        *)
(* resource data, the store and the store calls made so far, to the same   *)
(* after it returned result.                                               *)
(***************************************************************************)
\* minioReadILMPolicy leaving the identity when the get fails
ReadILMPolicy_KeepsIdOnFailure(w, getUp) ==
    LET id == w.d.id
        ok == StoreAnswers(id, getUp)
        calls == Append(w.calls, GetCall(id, ok))
    IN  IF ~ok
        THEN [d |-> w.d, store |-> w.store, calls |-> calls, result |-> NilDiag]
        ELSE [d |-> [id |-> id, bucket |-> id,
                     rule |-> DecodeRules(GetBucketLifecycle(w.store, id))],
              store |-> w.store, calls |-> calls, result |-> NilDiag]

\* minioReadILMPolicy appending the decoded rules to those d holds
ReadILMPolicy_AppendsRules(w, getUp) ==
    LET id == w.d.id
        ok == StoreAnswers(id, getUp)
        calls == Append(w.calls, GetCall(id, ok))
    IN  IF ~ok
        THEN [d |-> [w.d EXCEPT !.id = ""], store |-> w.store,
              calls |-> calls, result |-> NilDiag]
        ELSE [d |-> [id |-> id, bucket |-> id,
                     rule |-> w.d.rule \o DecodeRules(GetBucketLifecycle(w.store, id))],
              store |-> w.store, calls |-> calls, result |-> NilDiag]

\* minioReadILMPolicy; getUp: whether the store answers the get
ReadILMPolicy(w, getUp) ==
    LET id == w.d.id
        ok == StoreAnswers(id, getUp)
        calls == Append(w.calls, GetCall(id, ok))
    IN  IF ~ok
        THEN [d |-> [w.d EXCEPT !.id = ""], store |-> w.store,
              calls |-> calls, result |-> NilDiag]
        ELSE [d |-> [id |-> id, bucket |-> id,
                     rule |-> DecodeRules(GetBucketLifecycle(w.store, id))],
              store |-> w.store, calls |-> calls, result |-> NilDiag]

\* minioCreateILMPolicy calling d.SetId(bucket) before the set
CreateILMPolicy_SetsIdFirst(w, config, setUp, getUp) ==
    LET bucket == w.d.bucket
        ok == StoreAnswers(bucket, setUp)
        calls == Append(w.calls, SetCall(bucket, config, ok))
    IN  IF ~ok
        THEN [d |-> [w.d EXCEPT !.id = bucket], store |-> w.store, calls |-> calls,
              result |-> NewResourceError("creating bucket lifecycle failed", bucket)]
        ELSE ReadILMPolicy([d |-> [w.d EXCEPT !.id = bucket],
                            store |-> SetBucketLifecycle(w.store, bucket, config),
                            calls |-> calls, result |-> NilDiag], getUp)

\* minioCreateILMPolicy calling d.SetId(bucket) after the Read
CreateILMPolicy_ReadsBeforeSetId(w, config, setUp, getUp) ==
    LET bucket == w.d.bucket
        ok == StoreAnswers(bucket, setUp)
        calls == Append(w.calls, SetCall(bucket, config, ok))
    IN  IF ~ok
        THEN [d |-> w.d, store |-> w.store, calls |-> calls,
              result |-> NewResourceError("creating bucket lifecycle failed", bucket)]
        ELSE LET r == ReadILMPolicy([d |-> w.d,
                                     store |-> SetBucketLifecycle(w.store, bucket, config),
                                     calls |-> calls, result |-> NilDiag], getUp)
             IN  [r EXCEPT !.d.id = bucket]

\* minioCreateILMPolicy; config: the rules built from w.d.rule, one of
\* BuildRules(w.d.rule)
CreateILMPolicy(w, config, setUp, getUp) ==
    LET bucket == w.d.bucket
        ok == StoreAnswers(bucket, setUp)
        calls == Append(w.calls, SetCall(bucket, config, ok))
    IN  IF ~ok
        THEN [d |-> w.d, store |-> w.store, calls |-> calls,
              result |-> NewResourceError("creating bucket lifecycle failed", bucket)]
        ELSE ReadILMPolicy([d |-> [w.d EXCEPT !.id = bucket],
                            store |-> SetBucketLifecycle(w.store, bucket, config),
                            calls |-> calls, result |-> NilDiag], getUp)

\* minioCreateILMPolicy up to its call of minioReadILMPolicy: the set, and
\* d.SetId(bucket) when the store accepted it
CreateWrite(w, config, setUp) ==
    LET bucket == w.d.bucket
        ok == StoreAnswers(bucket, setUp)
        calls == Append(w.calls, SetCall(bucket, config, ok))
    IN  IF ~ok
        THEN [d |-> w.d, store |-> w.store, calls |-> calls,
              result |-> NewResourceError("creating bucket lifecycle failed", bucket)]
        ELSE [d |-> [w.d EXCEPT !.id = bucket],
              store |-> SetBucketLifecycle(w.store, bucket, config),
              calls |-> calls, result |-> NilDiag]

\* minioUpdateILMPolicy returning what minioCreateILMPolicy returned when
\* that is an error
UpdateILMPolicy_ReturnsCreateError(w, hasChange, config, setUp, getUp1, getUp2) ==
    LET w1 == IF hasChange THEN CreateILMPolicy(w, config, setUp, getUp1) ELSE w
    IN  IF w1.result.error THEN w1 ELSE ReadILMPolicy(w1, getUp2)

\* minioUpdateILMPolicy; hasChange: d.HasChange("rule")
UpdateILMPolicy(w, hasChange, config, setUp, getUp1, getUp2) ==
    LET w1 == IF hasChange THEN CreateILMPolicy(w, config, setUp, getUp1) ELSE w
    IN  ReadILMPolicy(w1, getUp2)

\* minioDeleteILMPolicy clearing the identity before the set
DeleteILMPolicy_ClearsIdFirst(w, setUp) ==
    LET id == w.d.id
        ok == StoreAnswers(id, setUp)
        calls == Append(w.calls, SetCall(id, <<>>, ok))
    IN  IF ~ok
        THEN [d |-> [w.d EXCEPT !.id = ""], store |-> w.store, calls |-> calls,
              result |-> NewResourceError("deleting lifecycle configuration failed", id)]
        ELSE [d |-> [w.d EXCEPT !.id = ""],
              store |-> SetBucketLifecycle(w.store, id, <<>>),
              calls |-> calls, result |-> NilDiag]

\* minioDeleteILMPolicy submitting the rules d holds instead of none
DeleteILMPolicy_SubmitsRules(w, setUp) ==
    LET id == w.d.id
        ok == StoreAnswers(id, setUp)
        config == CHOOSE c \in BuildRules(StripStatus(w.d.rule)) : TRUE
        calls == Append(w.calls, SetCall(id, config, ok))
    IN  IF ~ok
        THEN [d |-> w.d, store |-> w.store, calls |-> calls,
              result |-> NewResourceError("deleting lifecycle configuration failed", id)]
        ELSE [d |-> [w.d EXCEPT !.id = ""],
              store |-> SetBucketLifecycle(w.store, id, config),
              calls |-> calls, result |-> NilDiag]

\* minioDeleteILMPolicy
DeleteILMPolicy(w, setUp) ==
    LET id == w.d.id
        ok == StoreAnswers(id, setUp)
        calls == Append(w.calls, SetCall(id, <<>>, ok))
    IN  IF ~ok
        THEN [d |-> w.d, store |-> w.store, calls |-> calls,
              result |-> NewResourceError("deleting lifecycle configuration failed", id)]
        ELSE [d |-> [w.d EXCEPT !.id = ""],
              store |-> SetBucketLifecycle(w.store, id, <<>>),
              calls |-> calls, result |-> NilDiag]

(***************************************************************************)
(* The resource's state machine: the framework runs one handler at a time. *)
(***************************************************************************)
\* d.HasChange("rule") when the configuration gives rules and d.rule is the
\* last known state
HasChange(rules) == StripStatus(d.rule) # rules

\* last before any handler ran
NoRun ==
    [op |-> "none", bucket |-> "", rule |-> <<>>, changed |-> FALSE, again |-> FALSE,
     held |-> <<>>, calls |-> <<>>, result |-> NilDiag]

NoCodec ==
    /\ cin = <<>>
    /\ cexp = EmptyExpiration
    /\ cout = <<>>
    /\ cval = ""
    /\ cpc = "off"

\* lifecycle.Rule{}
EmptyRule ==
    [ID |-> "", Expiration |-> EmptyExpiration, Transition |-> EmptyTransition,
     NoncurrentVersionExpiration |-> [NoncurrentDays |-> 0],
     NoncurrentVersionTransition |-> [NoncurrentDays |-> 0],
     Status |-> "",
     RuleFilter |-> [Prefix |-> "", And |-> [Prefix |-> "", Tags |-> <<>>]]]

\* a "rule" entry with nothing set
EmptyEntry == RuleEntry("", <<>>, <<>>, 0, 0, "", NoTags)

\* rc while no rule is under check
NoRuleCheck ==
    [pc |-> "off", rule |-> EmptyEntry, built |-> EmptyRule, out |-> EmptyEntry,
     rebuilt |-> EmptyRule]

\* race while no two callers run
NoRace ==
    [bucket |-> "", pc |-> <<>>, kind |-> <<>>, rule |-> <<>>, d |-> <<>>,
     result |-> <<>>, writes |-> <<>>]

Init ==
    /\ d = [id |-> "", bucket |-> "", rule |-> <<>>]
    /\ store = [b \in Buckets |-> <<>>]
    /\ last = NoRun
    /\ NoCodec
    /\ rc = NoRuleCheck
    /\ race = NoRace

\* whether every store call of the handler run recorded in l was answered
AllAnswered(l) == \A i \in 1..Len(l.calls) : l.calls[i].ok

\* A handler ran on bucket and returned w.  last records the run: op, the
\* bucket, rule (the "rule" list d held when the handler started), changed
\* (d.HasChange("rule")), again (the handler is an Update given the rule
\* inputs of the handler run before it, a Create or Update all of whose
\* store calls were answered), held (the store's rules of the bucket when
\* the handler started), the store calls in order and the return value.
Ran(op, bucket, rules, changed, w) ==
    /\ d' = w.d
    /\ store' = w.store
    /\ last' = [op |-> op, bucket |-> bucket, rule |-> rules, changed |-> changed,
                again |-> /\ op = "Update"
                          /\ last.op \in {"Create", "Update"}
                          /\ AllAnswered(last)
                          /\ StripStatus(rules) = StripStatus(last.rule),
                held |-> store[bucket],
                calls |-> w.calls, result |-> w.result]
    /\ UNCHANGED <<cin, cexp, cout, cval, cpc, rc, race>>

\* the answers the store may choose for a call: both when the handler makes
\* the call, and one (which nothing reads) when it does not
Asked(made) == IF made THEN BOOLEAN ELSE {TRUE}

\* the framework creates a resource that has no identity
Create ==
    /\ d.id = ""
    /\ \E bucket \in Buckets, rules \in RuleLists, setUp \in BOOLEAN :
         \E config \in BuildRules(rules), getUp \in Asked(setUp) :
            Ran("Create", bucket, rules, TRUE,
                CreateILMPolicy([d |-> [id |-> "", bucket |-> bucket, rule |-> rules],
                                 store |-> store, calls |-> <<>>, result |-> NilDiag],
                                config, setUp, getUp))

\* the framework refreshes a resource that has an identity
Read ==
    /\ d.id # ""
    /\ \E getUp \in BOOLEAN :
         Ran("Read", d.id, d.rule, FALSE,
             ReadILMPolicy([d |-> d, store |-> store, calls |-> <<>>, result |-> NilDiag],
                           getUp))

\* the "rule" list d holds in an Update whose configuration gives rules that
\* differ from the state: the computed status of an entry is not in the
\* configuration and stays what the state has at that index
Planned(rules) ==
    [i \in 1..Len(rules) |->
        [rules[i] EXCEPT !.status = IF i <= Len(d.rule) THEN d.rule[i].status ELSE ""]]

\* the framework updates a resource that has an identity, with the rules of
\* the configuration; the bucket is ForceNew and stays.  d holds the rules
\* of the configuration when they differ from the state, else the state's.
Update ==
    /\ d.id # ""
    /\ \E rules \in RuleLists, getUp2 \in BOOLEAN :
         LET hasChange == HasChange(rules)
             planned == IF hasChange THEN Planned(rules) ELSE d.rule
         IN  \E config \in BuildRules(planned), setUp \in Asked(hasChange) :
               \E getUp1 \in Asked(hasChange /\ setUp) :
                Ran("Update", d.bucket, planned, hasChange,
                    UpdateILMPolicy([d |-> [d EXCEPT !.rule = planned],
                                     store |-> store, calls |-> <<>>, result |-> NilDiag],
                                    hasChange, config, setUp, getUp1, getUp2))

\* the framework destroys a resource that has an identity
Delete ==
    /\ d.id # ""
    /\ \E setUp \in BOOLEAN :
         Ran("Delete", d.id, d.rule, FALSE,
             DeleteILMPolicy([d |-> d, store |-> store, calls |-> <<>>, result |-> NilDiag],
                             setUp))

Next == Create \/ Read \/ Update \/ Delete

Spec == Init /\ [][Next]_vars

(***************************************************************************)
(* The expiration codec on its own: an expiration string is parsed, the    *)
(* parsed value decoded as minioReadILMPolicy does, the string validated.  *)
(***************************************************************************)
Alphabet == {"0", "5", "d", "-", "+", " ", "_", "x"}

ShortStrings == UNION {[1..n -> Alphabet] : n \in 0..MaxLen}

\* "<n>d" as %dd prints it
DurationToken(n) == IntToStr(n) \o <<"d">>

YearStrings == {<<"2", "0", "2", "4">>, <<"2", "0", "2", "3">>, <<"1", "9", "7", "0">>, <<"0", "0", "0", "1">>}
MonthStrings == {<<"0", "1">>, <<"0", "2">>, <<"1", "2">>, <<"1", "3">>, <<"0", "0">>}
DayStrings == {<<"0", "1">>, <<"2", "9">>, <<"3", "0">>, <<"3", "1">>, <<"0", "0">>}

DateStrings ==
    {y \o <<"-">> \o m \o <<"-">> \o dd :
        y \in YearStrings, m \in MonthStrings, dd \in DayStrings}

OtherStrings ==
    { DeleteMarkerStr,
      <<"d", "e", "l", "e", "t", "e", "m", "a", "r", "k", "e", "r">>,
      DeleteMarkerStr \o <<" ">>,
      <<"2", "0", "2", "4", "-", "1", "-", "0", "5">>,
      <<"2", "0", "2", "4", "/", "0", "1", "/", "1", "5">>,
      <<"2", "0", "2", "4", "-", "0", "1", "-", "1", "5", "x">>,
      <<"2", "4", "-", "0", "1", "-", "1", "5">> }

ExpirationStrings ==
    ShortStrings \cup {DurationToken(n) : n \in 0..MaxDays} \cup DateStrings \cup OtherStrings

InitCodec ==
    /\ d = [id |-> "", bucket |-> "", rule |-> <<>>]
    /\ store = [b \in Buckets |-> <<>>]
    /\ last = NoRun
    /\ cin \in ExpirationStrings
    /\ cexp = EmptyExpiration
    /\ cout = <<>>
    /\ cval = ""
    /\ cpc = "input"
    /\ rc = NoRuleCheck
    /\ race = NoRace

CodecParse ==
    /\ cpc = "input"
    /\ cexp' = parseILMExpiration(cin)
    /\ cpc' = "parsed"
    /\ UNCHANGED <<d, store, last, cin, cout, cval, rc, race>>

CodecDecode ==
    /\ cpc = "parsed"
    /\ cout' = DecodeExpiration(cexp)
    /\ cpc' = "decoded"
    /\ UNCHANGED <<d, store, last, cin, cexp, cval, rc, race>>

CodecValidate ==
    /\ cpc = "decoded"
    /\ cval' = validateILMExpiration(cin)
    /\ cpc' = "validated"
    /\ UNCHANGED <<d, store, last, cin, cexp, cout, rc, race>>

NextCodec == CodecParse \/ CodecDecode \/ CodecValidate

SpecCodec == InitCodec /\ [][NextCodec]_vars

(***************************************************************************)
(* Properties of the state machine (specification Spec).                   *)
(***************************************************************************)
\* the handler run recorded in last, as a world before its first store call
Fresh(rules) ==
    [d |-> [d EXCEPT !.rule = rules], store |-> store, calls |-> <<>>, result |-> NilDiag]

\* the store calls of kind op among the calls of the last handler run
CallsOf(op) == {i \in 1..Len(last.calls) : last.calls[i].op = op}

\* C1: an Update with changed rule inputs behaves exactly as Create with the
\* same inputs under the same store behaviour (set answered or not, get
\* answered or not): the same return value (nil, or the store error tagged
\* with the bucket), the same identity, rule list and store configuration.
C1_UpdateBehavesAsCreate ==
    [][ (last'.op = "Update" /\ last'.changed) =>
          \A getUp \in BOOLEAN :
             (\A i \in 1..Len(last'.calls) :
                 last'.calls[i].op = "get" =>
                    last'.calls[i].ok = StoreAnswers(last'.calls[i].bucket, getUp))
             => LET c == CreateILMPolicy(Fresh(last'.rule), last'.calls[1].config,
                                         last'.calls[1].ok, getUp)
                IN  /\ c.result = last'.result
                    /\ c.d = d'
                    /\ c.store = store' ]_vars

\* C2: whenever the get of a Read fails, Read clears the identity, returns
\* no error and leaves the rule list as it was: after a Read handler whose
\* get failed, and after any handler whose last store call is a failed get,
\* the identity is empty and the return value nil; when no get of the run
\* was answered the rule list is the one d held when the handler started.
C2_ReadFailureIsAbsence ==
    (Len(last.calls) > 0
       /\ last.calls[Len(last.calls)].op = "get"
       /\ ~last.calls[Len(last.calls)].ok)
    => /\ d.id = ""
       /\ last.result = NilDiag
       /\ (\A i \in CallsOf("get") : ~last.calls[i].ok) => d.rule = last.rule

\* a Read on a resource that mirrors rules, on a bucket holding rules, failed
C2_Witness ==
    /\ last.op = "Read"
    /\ last.calls = <<GetCall("b1", FALSE)>>
    /\ last.rule # <<>>
    /\ store["b1"] # <<>>
    /\ d.id = ""

\* C3: when the set of a Create fails, Create returns the store error
\* carrying the bucket name, leaves the identity empty, and makes no other
\* store call: no get and no second set.
C3_CreateFailureIsTerminal ==
    (last.op = "Create" /\ ~last.calls[1].ok)
    => /\ last.result = [error |-> TRUE, msg |-> "creating bucket lifecycle failed",
                         resource |-> last.bucket]
       /\ last.bucket \in Buckets
       /\ d.id = ""
       /\ Len(last.calls) = 1
       /\ last.calls[1].op = "set"
       /\ store[last.bucket] = last.held

\* a Create of a non-empty rule list whose set failed
C3_Witness ==
    /\ last.op = "Create"
    /\ ~last.calls[1].ok
    /\ last.rule # <<>>
    /\ last.result.error

\* C4: a Create whose set is answered makes exactly two store calls, the
\* set and then the get, both on the bucket (the get names the identity, so
\* the identity was assigned between them); when the get is answered too,
\* the identity is the bucket name and the rule list is the decoding of the
\* rules the store returned: one entry per input, with the input's id and
\* the status the store holds.
C4_CreateThenRead ==
    (last.op = "Create" /\ last.calls[1].ok)
    => /\ Len(last.calls) = 2
       /\ last.calls[1].op = "set" /\ last.calls[1].bucket = last.bucket
       /\ last.calls[2].op = "get" /\ last.calls[2].bucket = last.bucket
       /\ last.calls[2].ok =>
            /\ d.id = last.bucket
            /\ d.rule = DecodeRules(store[last.bucket])
            /\ Len(d.rule) = Len(last.rule)
            /\ \A i \in 1..Len(d.rule) :
                  /\ d.rule[i].id = last.rule[i].id
                  /\ d.rule[i].status = store[last.bucket][i].Status

\* a Create of two rules succeeded and the decoded list is not the input
C4_Witness ==
    /\ last.op = "Create"
    /\ AllAnswered(last)
    /\ Len(last.rule) = 2
    /\ d.id = "b1"
    /\ StripStatus(d.rule) # last.rule

\* C5: every answered set of a Create or Update replaces the bucket's whole
\* configuration: the bucket then holds exactly one rule per rule input, in
\* the order of the inputs, rule i having the id of input i, whatever the
\* bucket held before.
C5_FullReplaceInOrder ==
    (last.op \in {"Create", "Update"} /\ Len(last.calls) > 0
       /\ last.calls[1].op = "set" /\ last.calls[1].ok)
    => /\ store[last.bucket] = last.calls[1].config
       /\ Len(store[last.bucket]) = Len(last.rule)
       /\ \A i \in 1..Len(last.rule) :
             /\ store[last.bucket][i].ID = last.rule[i].id
             /\ store[last.bucket][i] \in BuildRule(last.rule[i])

\* an Update replaced two rules by two rules of other ids, in the given order
C5_Witness ==
    /\ last.op = "Update"
    /\ last.calls[1].op = "set" /\ last.calls[1].ok
    /\ Len(last.held) = 2
    /\ Len(last.rule) = 2
    /\ last.rule[1].id = "r2" /\ last.rule[2].id = "r1"
    /\ last.held[1].ID = "r1" /\ last.held[2].ID = "r2"

\* C6: when the set of a Delete fails, Delete returns the store error
\* carrying the bucket name and leaves the identity as it was, so that a
\* later Delete on the same identity can run and, when the store accepts
\* it, ends with the identity cleared.
C6_DeleteFailureKeepsIdentity ==
    (last.op = "Delete" /\ ~last.calls[1].ok)
    => /\ last.result = [error |-> TRUE, msg |-> "deleting lifecycle configuration failed",
                         resource |-> last.bucket]
       /\ d.id = last.bucket
       /\ d.id \in Buckets
       /\ store[last.bucket] = last.held
       /\ ENABLED Delete
       /\ DeleteILMPolicy(Fresh(d.rule), TRUE).d.id = ""
       /\ DeleteILMPolicy(Fresh(d.rule), TRUE).result = NilDiag

\* a Delete on a bucket holding rules failed
C6_Witness ==
    /\ last.op = "Delete"
    /\ ~last.calls[1].ok
    /\ d.id = "b1"
    /\ store["b1"] # <<>>

\* C7: an answered Delete on a resource with identity b submitted an empty
\* rule list for b, cleared the identity, and left the store returning an
\* empty rule list for b, whatever b held before.
C7_DeleteClears ==
    (last.op = "Delete" /\ last.calls[1].ok)
    => /\ last.calls = <<[op |-> "set", bucket |-> last.bucket, config |-> <<>>, ok |-> TRUE]>>
       /\ last.bucket \in Buckets
       /\ d.id = ""
       /\ last.result = NilDiag
       /\ GetBucketLifecycle(store, last.bucket) = <<>>

\* a Delete on a bucket that held two rules succeeded
C7_Witness ==
    /\ last.op = "Delete"
    /\ last.calls[1].ok
    /\ Len(last.held) = 2
    /\ d.id = ""

\* C8: with a store that answers every call and returns what was last
\* written, an Update given the rule inputs of the Create or Update before
\* it changes neither the store configuration nor the resource data
\* (identity, bucket and decoded rule list); so any number of repetitions
\* changes nothing.
C8_UpdateIdempotent ==
    [][ (last'.op = "Update" /\ last'.again /\ AllAnswered(last'))
          => (store' = store /\ d' = d) ]_vars

\* an Update repeated the inputs of the run before it; one, whose decoded
\* form differs from the inputs, wrote them again
C8_Witness ==
    /\ last.op = "Update"
    /\ last.again
    /\ AllAnswered(last)
    /\ last.changed
    /\ Len(last.calls) = 3

(***************************************************************************)
(* Properties of the expiration codec (specification SpecCodec).           *)
(***************************************************************************)
\* C9: for every integer n >= 0, n = 0 included, encoding "<n>d" with
\* parseILMExpiration and decoding the result as the Read path does yields
\* "<n>d" again.
C9_DurationRoundTripFromZero ==
    \A n \in 0..MaxDays :
        (cpc \in {"decoded", "validated"} /\ cin = DurationToken(n)) => cout = cin

\* C9 as amended: for every integer n >= 1 the round trip yields "<n>d"
\* again; "0d" encodes to the empty Expiration, which decodes to the empty
\* string.
C9_DurationRoundTrip ==
    \A n \in 0..MaxDays :
        (cpc \in {"decoded", "validated"} /\ cin = DurationToken(n))
        => /\ cexp = [Days |-> n, Date |-> ZeroTime, DeleteMarker |-> FALSE]
           /\ n >= 1 => (cout = cin /\ Len(cout) >= 2)
           /\ n = 0 => cout = <<>>

\* "12d" was encoded and decoded
C9_Witness ==
    /\ cpc = "decoded"
    /\ cin = <<"1", "2", "d">>
    /\ cexp.Days = 12
    /\ cout = <<"1", "2", "d">>

\* s is exactly an integer followed by 'd'
IsDurationShape(s) ==
    /\ Len(s) >= 2
    /\ s[Len(s)] = "d"
    /\ LET num == SubSeq(s, 1, Len(s) - 1)
           digits == IF num[1] = "-" THEN SubSeq(num, 2, Len(num)) ELSE num
       IN  Len(digits) >= 1 /\ \A i \in 1..Len(digits) : digits[i] \in Digits

\* s is a YYYY-MM-DD calendar date
IsDateShape(s) ==
    /\ Len(s) = 10
    /\ \A i \in {1, 2, 3, 4, 6, 7, 9, 10} : s[i] \in Digits
    /\ s[5] = "-" /\ s[8] = "-"
    /\ LET y == 1000 * DigitVal(s[1]) + 100 * DigitVal(s[2]) + 10 * DigitVal(s[3]) + DigitVal(s[4])
           m == 10 * DigitVal(s[6]) + DigitVal(s[7])
           dd == 10 * DigitVal(s[9]) + DigitVal(s[10])
       IN  m \in 1..12 /\ dd \in 1..DaysIn(m, y)

IsAcceptedShape(s) == s = DeleteMarkerStr \/ IsDurationShape(s) \/ IsDateShape(s)

\* C10: for every expiration string that is not the literal "DeleteMarker",
\* not exactly an integer followed by 'd' and not a YYYY-MM-DD calendar
\* date, parseILMExpiration returns the empty Expiration and
\* validateILMExpiration returns the format error; and validateILMExpiration
\* accepts every string of one of the three shapes.
C10_ExpirationShapes ==
    cpc = "validated" =>
       IF IsAcceptedShape(cin)
       THEN cval = ""
       ELSE cexp = EmptyExpiration /\ cval = FormatErrorMsg

(***************************************************************************)
(* The state machine over a bucket whose lifecycle configuration was       *)
(* written by another client: the resource is imported, then managed.      *)
(***************************************************************************)
\* a rule another client wrote, with the given id and status
ForeignRule(id, status) ==
    [EmptyRule EXCEPT !.ID = id, !.Status = status,
                      !.Expiration = [EmptyExpiration EXCEPT !.Days = 5],
                      !.RuleFilter = [Prefix |-> "tmp/",
                                      And |-> [Prefix |-> "", Tags |-> <<>>]]]

\* the configurations the bucket may hold before the resource is imported
ForeignConfigs ==
    {<<ForeignRule("r1", "Disabled")>>,
     <<ForeignRule("r1", "Enabled"), ForeignRule("r2", "Disabled")>>}

InitImport ==
    /\ d = [id |-> "", bucket |-> "", rule |-> <<>>]
    /\ \E config \in ForeignConfigs : store = [b \in Buckets |-> config]
    /\ last = NoRun
    /\ NoCodec
    /\ rc = NoRuleCheck
    /\ race = NoRace

\* terraform import: ImportStatePassthroughContext sets the identity to the
\* given bucket name, then the framework refreshes the resource
Import ==
    /\ d.id = ""
    /\ \E bucket \in Buckets, getUp \in BOOLEAN :
         Ran("Import", bucket, <<>>, FALSE,
             ReadILMPolicy([d |-> [id |-> bucket, bucket |-> "", rule |-> <<>>],
                            store |-> store, calls |-> <<>>, result |-> NilDiag],
                           getUp))

NextImport == Import \/ Create \/ Read \/ Update \/ Delete

SpecImport == InitImport /\ [][NextImport]_vars

(***************************************************************************)
(* Two callers that share the store and nothing else, each with resource   *)
(* data of its own, run minioCreateILMPolicy or minioUpdateILMPolicy (with *)
(* changed rules) on one bucket.  A step is one store call of one caller   *)
(* with the code that follows it up to the caller's next store call.       *)
(* race.pc[i] is the call caller i makes next: "set" (line 171), "get1"    *)
(* (the Read of Create, line 177), "get2" (the Read of Update, line 268).  *)
(* race.writes lists the answered sets in order, each with its caller and  *)
(* configuration.                                                          *)
(***************************************************************************)
Callers == {1, 2}

\* the rule lists of the first caller: those of one rule
ShortRuleLists == {l \in RuleLists : Len(l) = 1}

InitRace ==
    /\ d = [id |-> "", bucket |-> "", rule |-> <<>>]
    /\ store = [b \in Buckets |-> <<>>]
    /\ last = NoRun
    /\ NoCodec
    /\ rc = NoRuleCheck
    /\ \E bucket \in Buckets, k1, k2 \in {"Create", "Update"},
          r1 \in ShortRuleLists, r2 \in RuleLists :
          /\ r1 # r2
          /\ race = [bucket |-> bucket,
                     pc |-> <<"set", "set">>,
                     kind |-> <<k1, k2>>,
                     rule |-> <<r1, r2>>,
                     d |-> <<[id |-> IF k1 = "Update" THEN bucket ELSE "",
                              bucket |-> bucket, rule |-> r1],
                             [id |-> IF k2 = "Update" THEN bucket ELSE "",
                              bucket |-> bucket, rule |-> r2]>>,
                     result |-> <<NilDiag, NilDiag>>,
                     writes |-> <<>>]

\* caller i as a handler world
RaceWorld(i) ==
    [d |-> race.d[i], store |-> store, calls |-> <<>>, result |-> race.result[i]]

\* caller i makes the set of minioCreateILMPolicy
RaceSet ==
    \E i \in Callers :
       /\ race.pc[i] = "set"
       /\ \E config \in BuildRules(race.d[i].rule), setUp \in BOOLEAN :
            LET w == CreateWrite(RaceWorld(i), config, setUp) IN
            /\ store' = w.store
            /\ race' = [race EXCEPT
                   !.d[i] = w.d,
                   !.result[i] = w.result,
                   !.writes = IF w.calls[1].ok
                              THEN Append(@, [by |-> i, config |-> config]) ELSE @,
                   !.pc[i] = IF w.calls[1].ok THEN "get1"
                             ELSE IF race.kind[i] = "Update" THEN "get2" ELSE "done"]
       /\ UNCHANGED <<d, last, cin, cexp, cout, cval, cpc, rc>>

\* caller i makes the get of the minioReadILMPolicy that ends
\* minioCreateILMPolicy
RaceRead ==
    \E i \in Callers :
       /\ race.pc[i] = "get1"
       /\ \E getUp \in BOOLEAN :
            LET w == ReadILMPolicy(RaceWorld(i), getUp) IN
            race' = [race EXCEPT
                   !.d[i] = w.d,
                   !.result[i] = w.result,
                   !.pc[i] = IF race.kind[i] = "Update" THEN "get2" ELSE "done"]
       /\ UNCHANGED <<d, store, last, cin, cexp, cout, cval, cpc, rc>>

\* caller i makes the get of the minioReadILMPolicy that ends
\* minioUpdateILMPolicy, which returns what that returns
RaceReadAgain ==
    \E i \in Callers :
       /\ race.pc[i] = "get2"
       /\ \E getUp \in BOOLEAN :
            LET w == ReadILMPolicy([RaceWorld(i) EXCEPT !.result = NilDiag], getUp) IN
            race' = [race EXCEPT
                   !.d[i] = w.d,
                   !.result[i] = w.result,
                   !.pc[i] = "done"]
       /\ UNCHANGED <<d, store, last, cin, cexp, cout, cval, cpc, rc>>

NextRace == RaceSet \/ RaceRead \/ RaceReadAgain

SpecRace == InitRace /\ [][NextRace]_vars

(***************************************************************************)
(* The rule assembler on its own: a "rule" entry is built into a           *)
(* lifecycle.Rule as minioCreateILMPolicy does, the rule (or one the store *)
(* returns that this code did not write) decoded as minioReadILMPolicy     *)
(* does, and the decoded entry built again.                                *)
(***************************************************************************)
Prefixes == {"", "logs/"}

TagKeys == {"env", "k"}
TagValues == {"prod", "v"}

\* the tag mappings over TagKeys and TagValues, the empty one included
TagMaps == UNION {[ks -> TagValues] : ks \in SUBSET TagKeys}

StorageClasses == {"GLACIER"}

\* strings given as the days of a transition
TransitionDaysStrings ==
    {DurationToken(n) : n \in 0..MaxDays} \cup {<<>>, <<"x">>, <<"5", "d", "x">>}

\* strings given as the date of a transition or as an expiration date
DateInputs == {<<>>, <<"2", "0", "2", "4", "-", "0", "1", "-", "1", "5">>, <<"2", "0", "2", "3", "-", "0", "2", "-", "2", "9">>, <<"0", "0", "0", "1", "-", "0", "1", "-", "0", "1">>}

TransitionInputs ==
    {<<>>} \cup
    {<< [days |-> ds, date |-> dt, storage_class |-> c] >> :
        ds \in TransitionDaysStrings, dt \in DateInputs, c \in StorageClasses}

\* the "rule" entries under check
RuleCheckInputs ==
    {RuleEntry("r1", e, tr, nve, 0, p, tg) :
        e \in {<<>>, <<"5", "d">>, DeleteMarkerStr, <<"2", "0", "2", "4", "-", "0", "1", "-", "1", "5">>},
        tr \in TransitionInputs, nve \in {0, 30}, p \in Prefixes, tg \in TagMaps}

\* filters the store may return that minioCreateILMPolicy does not build: the
\* compound shape with no tags, and with one key twice
ForeignFilters ==
    {[Prefix |-> "", And |-> [Prefix |-> p, Tags |-> tl]] :
        p \in Prefixes,
        tl \in {<<>>, <<[Key |-> "k", Value |-> "v"], [Key |-> "k", Value |-> "prod"]>>}}
    \cup {[Prefix |-> p, And |-> [Prefix |-> "", Tags |-> <<>>]] : p \in Prefixes}

\* rules the store may return that this code did not write
ForeignRules ==
    {[EmptyRule EXCEPT !.ID = "r1", !.Status = s, !.RuleFilter = f,
                       !.Expiration = e, !.Transition = tr] :
        s \in {"Enabled", "Disabled"}, f \in ForeignFilters,
        e \in {EmptyExpiration, [EmptyExpiration EXCEPT !.Days = 5]},
        tr \in {EmptyTransition,
                [Days |-> 0, Date |-> ZeroTime, StorageClass |-> "GLACIER"],
                [Days |-> 3, Date |-> ZeroTime, StorageClass |-> "GLACIER"]}}

InitRule ==
    /\ d = [id |-> "", bucket |-> "", rule |-> <<>>]
    /\ store = [b \in Buckets |-> <<>>]
    /\ last = NoRun
    /\ NoCodec
    /\ race = NoRace
    /\ \/ \E r \in RuleCheckInputs : rc = [NoRuleCheck EXCEPT !.pc = "input", !.rule = r]
       \/ \E r \in ForeignRules : rc = [NoRuleCheck EXCEPT !.pc = "stored", !.built = r]

\* the body of the loop of minioCreateILMPolicy
RuleBuild ==
    /\ rc.pc = "input"
    /\ \E r \in BuildRule(rc.rule) : rc' = [rc EXCEPT !.pc = "built", !.built = r]
    /\ UNCHANGED <<d, store, last, cin, cexp, cout, cval, cpc, race>>

\* the body of the loop of minioReadILMPolicy
RuleDecode ==
    /\ rc.pc \in {"built", "stored"}
    /\ rc' = [rc EXCEPT !.pc = IF rc.pc = "built" THEN "decoded" ELSE "mirrored",
                        !.out = DecodeRule(rc.built)]
    /\ UNCHANGED <<d, store, last, cin, cexp, cout, cval, cpc, race>>

\* the body of the loop of minioCreateILMPolicy, on the decoded entry
RuleRebuild ==
    /\ rc.pc = "decoded"
    /\ \E r \in BuildRule(rc.out) : rc' = [rc EXCEPT !.pc = "rebuilt", !.rebuilt = r]
    /\ UNCHANGED <<d, store, last, cin, cexp, cout, cval, cpc, race>>

NextRule == RuleBuild \/ RuleDecode \/ RuleRebuild

SpecRule == InitRule /\ [][NextRule]_vars

(***************************************************************************)
(* Properties of the rule assembler                                        *)
(***************************************************************************)
\* the (key, value) pairs of a tag list
PairsOf(tl) == {<<tl[i].Key, tl[i].Value>> : i \in 1..Len(tl)}

\* C11: for every prefix p and tag mapping T of a rule, the filter Create
\* builds is Compound(p, T) when T is non-empty (Prefix unset, And.Prefix = p,
\* And.Tags the pairs of T, each once) and Simple(p) when T is empty (Prefix
\* = p, And unset), and the entry Read decodes from the built rule has
\* filter p and tags T.
C11_FilterRoundTrip ==
    rc.pc \in {"built", "decoded", "rebuilt"} =>
        LET p == rc.rule.filter
            T == rc.rule.tags
            f == rc.built.RuleFilter
        IN  /\ IF DOMAIN T # {}
               THEN /\ f.Prefix = ""
                    /\ f.And.Prefix = p
                    /\ Len(f.And.Tags) = Cardinality(DOMAIN T)
                    /\ PairsOf(f.And.Tags) = {<<k, T[k]>> : k \in DOMAIN T}
               ELSE /\ f.Prefix = p
                    /\ f.And = [Prefix |-> "", Tags |-> <<>>]
            /\ DecodePrefix(f) = p
            /\ DecodeTags(f) = T
            /\ rc.pc \in {"decoded", "rebuilt"} =>
                   rc.out.filter = p /\ rc.out.tags = T

\* a rule with prefix "logs/" and tags {env: prod} was built and decoded
C11_Witness ==
    /\ rc.pc = "decoded"
    /\ rc.rule.filter = "logs/"
    /\ DOMAIN rc.rule.tags = {"env"}
    /\ rc.rule.tags["env"] = "prod"
    /\ Len(rc.built.RuleFilter.And.Tags) = 1
    /\ rc.out.filter = "logs/"
    /\ rc.out.tags = rc.rule.tags

\* a lifecycle.Rule with at most one shape set in each of its variants
OneShapeEach(r) ==
    /\ Cardinality({s \in {"Days", "Date", "DeleteMarker"} :
                       \/ s = "Days" /\ r.Expiration.Days # 0
                       \/ s = "Date" /\ r.Expiration.Date # ZeroTime
                       \/ s = "DeleteMarker" /\ r.Expiration.DeleteMarker}) <= 1
    /\ ~(r.Transition.Days # 0 /\ r.Transition.Date # ZeroTime)
    /\ ~(/\ r.RuleFilter.Prefix # ""
         /\ r.RuleFilter.And.Prefix # "" \/ Len(r.RuleFilter.And.Tags) > 0)

\* C12: every rule the loop of minioCreateILMPolicy builds for a set call,
\* from a planned entry or from a decoded one, has at most one of Days, Date
\* and DeleteMarker set in its Expiration, at most one of Days and Date set
\* in its Transition, and either Filter.Prefix or Filter.And populated,
\* never both.
C12_OneActiveShape ==
    /\ rc.pc \in {"built", "decoded", "rebuilt"} => OneShapeEach(rc.built)
    /\ rc.pc = "rebuilt" => OneShapeEach(rc.rebuilt)

\* a rule was built from a transition whose days and date are both valid,
\* with tags and a prefix
C12_Witness ==
    /\ rc.pc = "built"
    /\ Len(rc.rule.transition) = 1
    /\ rc.rule.transition[1].days = <<"5", "d">>
    /\ TimeParse(rc.rule.transition[1].date).ok
    /\ rc.built.Transition.Days = 5
    /\ rc.built.Expiration.DeleteMarker
    /\ rc.rule.filter = "logs/"
    /\ Cardinality(DOMAIN rc.rule.tags) = 2

\* lifecycle.Filter{Prefix: p}
SimpleFilter(p) == [Prefix |-> p, And |-> [Prefix |-> "", Tags |-> <<>>]]

\* C15: a store rule whose filter has the compound shape with prefix p and
\* no tags is decoded by Read as the rule with the filter Simple(p) is: to
\* filter p and an empty tags map.
C15_CompoundWithoutTagsAsSimple ==
    (/\ rc.pc = "mirrored"
     /\ rc.built.RuleFilter.Prefix = ""
     /\ Len(rc.built.RuleFilter.And.Tags) = 0) =>
        LET p == rc.built.RuleFilter.And.Prefix IN
        /\ rc.out = DecodeRule([rc.built EXCEPT !.RuleFilter = SimpleFilter(p)])
        /\ rc.out.filter = p
        /\ rc.out.tags = NoTags

\* s is a duration token "<n>d", n >= 0
IsDurationToken(s) == IsDurationShape(s) /\ s[1] # "-"

\* the transition the stated codec builds for the one-element input <<t>>
StatedTransition(t) ==
    IF IsDurationToken(t.days)
    THEN [Days |-> DecimalValue(SubSeq(t.days, 1, Len(t.days) - 1)),
          Date |-> ZeroTime, StorageClass |-> t.storage_class]
    ELSE IF IsDateShape(t.date)
         THEN [Days |-> 0, Date |-> TimeParse(t.date).time,
               StorageClass |-> t.storage_class]
         ELSE EmptyTransition

\* C16: for a one-element transition input with storage class c, days
\* "<n>d" builds Days(n, c) even when date is valid too, otherwise a valid
\* date d builds Date(d, c), otherwise the empty Transition; Read decodes
\* Days(n, c) to [days "<n>d", storage_class c] and Date(d, c) to [date d,
\* storage_class c]; and building the decoded entry again gives the same
\* Transition, for every accepted input (every n >= 0).
C16_TransitionRoundTrip ==
    (rc.pc \in {"built", "decoded", "rebuilt"} /\ Len(rc.rule.transition) = 1) =>
        LET t == rc.rule.transition[1]
            b == rc.built.Transition
        IN  /\ b = StatedTransition(t)
            /\ (rc.pc \in {"decoded", "rebuilt"} /\ b # EmptyTransition) =>
                  rc.out.transition =
                      IF IsDurationToken(t.days)
                      THEN << [days |-> t.days, date |-> <<>>,
                               storage_class |-> t.storage_class] >>
                      ELSE << [days |-> <<>>, date |-> t.date,
                               storage_class |-> t.storage_class] >>
            /\ (rc.pc = "rebuilt" /\ (IsDurationToken(t.days) \/ IsDateShape(t.date))) =>
                  rc.rebuilt.Transition = b

(***************************************************************************)
(* Properties of the state machine, the imported bucket included           *)
(***************************************************************************)
\* C13: every rule of every set call a Create or an Update makes has
\* Status "Enabled", whatever ran before and whatever status the entries d
\* held at the start had; and after a handler whose last get was answered,
\* the status of each entry of d is the Status of the store's rule at that
\* index.
C13_WritesEnabledReadsMirror ==
    /\ last.op \in {"Create", "Update"} =>
          \A i \in CallsOf("set") :
             \A j \in 1..Len(last.calls[i].config) :
                last.calls[i].config[j].Status = "Enabled"
    /\ (/\ last.op \in {"Import", "Read", "Create", "Update"}
        /\ Len(last.calls) > 0
        /\ last.calls[Len(last.calls)].op = "get"
        /\ last.calls[Len(last.calls)].ok) =>
          /\ Len(d.rule) = Len(store[last.bucket])
          /\ \A j \in 1..Len(d.rule) : d.rule[j].status = store[last.bucket][j].Status

\* an Update whose entries had mirrored the status "Disabled" made a set
\* call, and an Import mirrored "Disabled" before it
C13_Witness ==
    /\ last.op = "Update"
    /\ last.changed
    /\ \E j \in 1..Len(last.rule) : last.rule[j].status = "Disabled"
    /\ Len(last.calls) = 3
    /\ last.calls[1].op = "set" /\ last.calls[1].ok
    /\ Len(last.calls[1].config) = Len(last.rule)
    /\ last.calls[3].ok
    /\ \A j \in 1..Len(d.rule) : d.rule[j].status = "Enabled"

\* C14: the last store call of every Update is a get, whether or not the
\* rules changed and whether or not the set was answered; an Update whose
\* rule inputs did not change makes no set call and leaves the bucket's
\* configuration as it was.
C14_UpdateEndsWithRead ==
    last.op = "Update" =>
        /\ Len(last.calls) >= 1
        /\ last.calls[Len(last.calls)].op = "get"
        /\ ~last.changed =>
              /\ CallsOf("set") = {}
              /\ Len(last.calls) = 1
              /\ store[last.bucket] = last.held

\* an Update with changed rules whose set failed went on to the get
C14_Witness ==
    /\ last.op = "Update"
    /\ last.changed
    /\ Len(last.calls) = 2
    /\ last.calls[1].op = "set" /\ ~last.calls[1].ok
    /\ last.calls[2].op = "get" /\ last.calls[2].ok
    /\ last.held # <<>>
    /\ store[last.bucket] = last.held
    /\ ~last.result.error

\* C18: every store call of a Create, Read, Update or Delete is made with
\* the bucket name the resource had when the handler started, which is not
\* empty; so an Update makes no call with an empty bucket name after a Read
\* in it cleared the identity.
C18_CallsNameTheBucket ==
    last.op \in {"Create", "Read", "Update", "Delete"} =>
        /\ last.bucket # ""
        /\ \A i \in 1..Len(last.calls) : last.calls[i].bucket = last.bucket

(***************************************************************************)
(* Properties of two callers on one bucket                                 *)
(***************************************************************************)
\* the callers whose set the store answered
Writers == {race.writes[k].by : k \in 1..Len(race.writes)}

\* C17: with two callers running Create or Update with changed rules on one
\* bucket with different rule lists, in every interleaving of their store
\* calls the bucket's configuration is the whole configuration of the set
\* answered last, built from that caller's rule list alone (never the two
\* lists merged), and once both have returned no caller has an error other
\* than a Create whose own set the store did not answer: being overwritten
\* gives none.
C17_LastWriterWins ==
    race.pc # <<>> =>
        /\ race.rule[1] # race.rule[2]
        /\ store[race.bucket] =
              IF race.writes = <<>> THEN <<>>
              ELSE race.writes[Len(race.writes)].config
        /\ race.writes # <<>> =>
              LET w == race.writes[Len(race.writes)] IN
              /\ w.config \in BuildRules(race.rule[w.by])
              /\ Len(store[race.bucket]) = Len(race.rule[w.by])
        /\ race.pc = <<"done", "done">> =>
              \A i \in Callers :
                 race.result[i].error <=> (race.kind[i] = "Create" /\ i \notin Writers)

\* both callers returned without error, caller 2 wrote last, and the rule
\* list caller 1 ends with is the decoded configuration of caller 2, not
\* its own
C17_Witness ==
    /\ race.pc = <<"done", "done">>
    /\ Len(race.writes) = 2
    /\ race.writes[1].by = 1 /\ race.writes[2].by = 2
    /\ ~race.result[1].error /\ ~race.result[2].error
    /\ race.d[1].id = race.bucket
    /\ race.d[1].rule = DecodeRules(race.writes[2].config)
    /\ StripStatus(race.d[1].rule) = race.rule[2]
    /\ StripStatus(race.d[1].rule) # race.rule[1]
    /\ race.d[2].rule = race.d[1].rule

====
